---- MODULE Spec2Model ----
(***************************************************************************)
(* Model of spellcheck/spelling.py: the SpellChecker base class (check,    *)
(* correct, the correction cache, the personal dictionary and the personal *)
(* substitution table) over the three candidate-producing adapters         *)
(* HunspellChecker, ASpellChecker and SymspellChecker.                      *)
(*                                                                         *)
(* A Python string is modelled as the sequence of its characters, so that  *)
(* startswith, slicing, lower() and the edit distance are computed.        *)
(* The external engines are oracles: every invocation draws its answer     *)
(* (a truth value, a candidate list, or an exception) afresh.              *)
(***************************************************************************)
EXTENDS Integers, Sequences, FiniteSets, TLC

\* ------------------------------------------------------------------ bounds
\* Number of check/correct calls made on one checker.
MaxOps == 2
\* Longest candidate list an engine returns.
MaxSuggestions == 2

\* ------------------------------------------------------------- the strings
LB == <<"[">>
RB == <<"]">>
I == <<"I">>
teh == <<"t", "e", "h">>
Teh == <<"T", "e", "h">>
the == <<"t", "h", "e">>
ten == <<"t", "e", "n">>
selfa == <<"s", "e", "l", "f", "a">>
self == <<"s", "e", "l", "f">>
self_ == <<"s", "e", "l", "f", "-">>
self_a == <<"s", "e", "l", "f", "-", "a">>

\* Tokens handed to correct, and to check.
Tokens == {LB, RB, teh, Teh, selfa}
CheckTokens == {teh, Teh, selfa, self_a}
\* Correction strings the engines propose; one of them is itself a token.
Candidates == {the, teh}

RECURSIVE SeqsUpTo(_, _)
SeqsUpTo(S, n) ==
    IF n = 0 THEN {<<>>}
    ELSE LET shorter == SeqsUpTo(S, n - 1)
         IN  shorter \cup {Append(q, x) : q \in shorter, x \in S}

\* The candidate lists an engine may answer with.
SuggestionLists == SeqsUpTo(Candidates, MaxSuggestions)

\* Corpus frequency tables (word_frequency(r, 'en')); a word not listed has
\* frequency 0.
FreqTables == {(the :> 2) @@ (teh :> 0), (the :> 1) @@ (teh :> 1)}

\* word_frequency is not called when ranking is off: no table then.
NoFreqs == [x \in {} |-> 0]

\* Constructor arguments.  None and an empty container are both falsy in the
\* tests of lines 31 and 37, so one empty value stands for both.
NoSubs == [x \in {} |-> x]
PersonalDicts == {{}, {teh, self_a}}
PersonalSubs == {NoSubs, (RB :> ten) @@ (selfa :> the)}
DefaultCutoff == 3
Cutoffs == {0, 1, DefaultCutoff}
Adapters == {"Hunspell", "ASpell", "Symspell"}

VARIABLES
    personal_dict,    \* self.personal_dict
    personal_subs,    \* self.personal_subs
    do_word_freqs,    \* self.do_word_freqs
    max_diff_cutoff,  \* self.max_diff_cutoff
    caching,          \* whether __init__ created self._cache
    adapter,          \* the concrete subclass
    freq_table,       \* the table behind word_frequency
    cache,            \* self._cache
    call,             \* the last call: operation, argument, outcome, engine use
    seen,             \* tokens correct has been called on before
    first,            \* token -> the string its first returning correct gave
    n_suggest,        \* token -> number of correction_suggestions invocations
    faulted,          \* an engine operation has raised
    nops              \* calls made so far

config == <<personal_dict, personal_subs, do_word_freqs, max_diff_cutoff,
            caching, adapter, freq_table>>
vars == <<personal_dict, personal_subs, do_word_freqs, max_diff_cutoff,
          caching, adapter, freq_table, cache, call, seen, first, n_suggest,
          faulted, nops>>

\* ------------------------------------------------------- string operations
\* str.startswith
startswith(s, prefix) ==
    Len(s) >= Len(prefix) /\ SubSeq(s, 1, Len(prefix)) = prefix

\* str.lower, on the characters the strings above use
lower_char(c) == IF c = "T" THEN "t" ELSE IF c = "I" THEN "i" ELSE c
lower(s) == [i \in 1..Len(s) |-> lower_char(s[i])]

\* (mutant) the slice starts one character early: 'self-'+s[3:]
hyphenated_from_3(s) == self_ \o SubSeq(s, 4, Len(s))

\* 'self-'+s[4:]
hyphenated(s) == self_ \o SubSeq(s, 5, Len(s))

Min2(a, b) == IF a <= b THEN a ELSE b

\* One row of the edit-distance table: row holds the cells 0..Len(row)-1 of
\* the row of character c, prev is the row above it.
RECURSIVE distance_row(_, _, _, _)
distance_row(prev, c, b, row) ==
    IF Len(row) = Len(b) + 1 THEN row
    ELSE distance_row(prev, c, b,
             Append(row,
                 Min2(Min2(prev[Len(row) + 1] + 1, row[Len(row)] + 1),
                      prev[Len(row)] + (IF c = b[Len(row)] THEN 0 ELSE 1))))

RECURSIVE distance_rows(_, _, _, _)
distance_rows(a, b, i, prev) ==
    IF i > Len(a) THEN prev
    ELSE distance_rows(a, b, i + 1, distance_row(prev, a[i], b, <<i>>))

\* levenshtein.distance: insertions, deletions and substitutions, on the raw
\* strings (no case folding)
distance(a, b) ==
    distance_rows(a, b, 1, [j \in 1..(Len(b) + 1) |-> j - 1])[Len(b) + 1]

\* word_frequency(r, 'en')
word_frequency(r) == IF r \in DOMAIN freq_table THEN freq_table[r] ELSE 0

\* ------------------------------------------------- ranking and filtering
\* (mutant) an unstable step: x goes before the elements of equal frequency
RECURSIVE insert_before_equal(_, _)
insert_before_equal(q, x) ==
    IF Len(q) = 0 THEN <<x>>
    ELSE IF word_frequency(Head(q)) > word_frequency(x)
         THEN <<Head(q)>> \o insert_before_equal(Tail(q), x)
         ELSE <<x>> \o q

\* One step of the stable sort: x goes behind every element whose key -freq
\* is not larger than its own.
RECURSIVE insert_by_freq(_, _)
insert_by_freq(q, x) ==
    IF Len(q) = 0 THEN <<x>>
    ELSE IF word_frequency(Head(q)) >= word_frequency(x)
         THEN <<Head(q)>> \o insert_by_freq(Tail(q), x)
         ELSE <<x>> \o q

\* sorted(freqs, key=lambda x: -x[1]): stable, descending by frequency
RECURSIVE sorted_by_freq(_)
sorted_by_freq(suggestions) ==
    IF Len(suggestions) = 0 THEN <<>>
    ELSE insert_by_freq(sorted_by_freq(SubSeq(suggestions, 1, Len(suggestions) - 1)),
                        suggestions[Len(suggestions)])

\* lines 51-55: the ranking step
ranked(suggestions) ==
    IF Len(suggestions) > 0 /\ do_word_freqs
    THEN sorted_by_freq(suggestions)
    ELSE suggestions

\* the test of line 59
within_cutoff(s, r) == distance(s, r) <= max_diff_cutoff

\* lines 56-59: the filtering step; a cutoff of 0 is falsy and skips it
filtered(s, suggestions) ==
    IF Len(suggestions) > 0 /\ max_diff_cutoff # 0
    THEN SelectSeq(suggestions, LAMBDA r : within_cutoff(s, r))
    ELSE suggestions

\* lines 61-64: the first survivor, else the original word
chosen(s, suggestions) ==
    IF Len(suggestions) > 0 THEN suggestions[1] ELSE s

\* lines 51-64
post_process(s, suggestions) == chosen(s, filtered(s, ranked(suggestions)))

\* ------------------------------------------------------------ the engines
\* What an engine operation answers: a value, or an exception of its own.
EngineChecks == {"True", "False", "raise"}
EngineLists ==
    {[raised |-> FALSE, value |-> q] : q \in SuggestionLists}
        \cup {[raised |-> TRUE, value |-> <<>>]}

\* HunspellChecker defines _check; ASpellChecker and SymspellChecker do not.
has_check == adapter = "Hunspell"

Invocation(fn, s, answer) == [fn |-> fn, s |-> s, answer |-> answer]

\* A string seen as a sequence: its characters, one string each.
chars(term) == [i \in 1..Len(term) |-> <<term[i]>>]

\* What a lookup of the symspell engine came back with, for the record.
answered(lookup_result) ==
    IF lookup_result.raised THEN "raise"
    ELSE IF Len(lookup_result.value) = 0 THEN "empty" ELSE "found"

\* SymspellChecker.correction_suggestions: the term of the first item of the
\* primary lookup, or of the compound lookup when the primary one is empty.
\* The term is a string, which the caller then treats as a sequence.
symspell_suggestions(primary, compound) ==
    LET suggestions == IF primary.raised \/ Len(primary.value) > 0
                       THEN primary ELSE compound
        lookups == IF primary.raised \/ Len(primary.value) > 0
                   THEN <<answered(primary)>>
                   ELSE <<answered(primary), answered(compound)>>
    IN  IF suggestions.raised
        THEN [outcome |-> "EngineError", value |-> <<>>, lookups |-> lookups]
        ELSE IF Len(suggestions.value) = 0
        THEN [outcome |-> "IndexError", value |-> <<>>, lookups |-> lookups]
        ELSE [outcome |-> "return", value |-> chars(suggestions.value[1]),
              lookups |-> lookups]

\* HunspellChecker / ASpellChecker .correction_suggestions: obj.suggest(s)
suggest(answer) ==
    IF answer.raised
    THEN [outcome |-> "EngineError", value |-> <<>>, lookups |-> <<>>]
    ELSE [outcome |-> "return", value |-> answer.value, lookups |-> <<>>]

\* self.correction_suggestions(s), by subclass
correction_suggestions(primary, compound) ==
    IF adapter = "Symspell"
    THEN symspell_suggestions(primary, compound)
    ELSE suggest(primary)

\* ------------------------------------------------------------------ check
\* line 31
in_personal_dict(s) == personal_dict # {} /\ lower(s) \in personal_dict

\* (mutant) any answer of the engine that is no exception counts as true
check_any_answer(s, engine) ==
    IF in_personal_dict(s)
    THEN [outcome |-> "return", truth |-> TRUE, engine |-> <<>>]
    ELSE IF ~has_check
    THEN [outcome |-> "AttributeError", truth |-> FALSE, engine |-> <<>>]
    ELSE IF engine = "raise"
    THEN [outcome |-> "EngineError", truth |-> FALSE,
          engine |-> <<Invocation("_check", s, engine)>>]
    ELSE [outcome |-> "return", truth |-> TRUE,
          engine |-> <<Invocation("_check", s, engine)>>]

\* (mutant) the dictionary test without lower()
check_case_sensitive(s, engine) ==
    IF personal_dict # {} /\ s \in personal_dict
    THEN [outcome |-> "return", truth |-> TRUE, engine |-> <<>>]
    ELSE IF ~has_check
    THEN [outcome |-> "AttributeError", truth |-> FALSE, engine |-> <<>>]
    ELSE IF engine = "raise"
    THEN [outcome |-> "EngineError", truth |-> FALSE,
          engine |-> <<Invocation("_check", s, engine)>>]
    ELSE [outcome |-> "return", truth |-> (engine = "True"),
          engine |-> <<Invocation("_check", s, engine)>>]

\* SpellChecker.check, lines 30-34.  engine is the answer obj.spell would give.
check(s, engine) ==
    IF in_personal_dict(s)
    THEN [outcome |-> "return", truth |-> TRUE, engine |-> <<>>]
    ELSE IF ~has_check
    THEN [outcome |-> "AttributeError", truth |-> FALSE, engine |-> <<>>]
    ELSE IF engine = "raise"
    THEN [outcome |-> "EngineError", truth |-> FALSE,
          engine |-> <<Invocation("_check", s, engine)>>]
    ELSE [outcome |-> "return", truth |-> (engine = "True"),
          engine |-> <<Invocation("_check", s, engine)>>]

\* ---------------------------------------------------------------- correct
\* line 37
in_personal_subs(s) == s \in DOMAIN personal_subs

\* (mutant) the cache is never consulted
in_cache_never(s) == FALSE

\* line 40
in_cache(s) == s \in DOMAIN cache

\* line 42, before the call of check
hyphen_candidate(s) == startswith(s, self) /\ ~startswith(s, self_)

\* line 45
is_bracket(s) == s = RB \/ s = LB

\* (mutant) the assignment replaces the mapping by the one new entry
store_alone(s, v) == [t \in {s} |-> v]

\* self._cache[s] = v
store(s, v) == [t \in DOMAIN cache \cup {s} |-> IF t = s THEN v ELSE cache[t]]

Returned(v, c, engine, got, suggestions) ==
    [outcome |-> "return", result |-> v, cache |-> c, engine |-> engine,
     got |-> got, suggested |-> suggestions, lookups |-> <<>>]

Raised(exc, engine) ==
    [outcome |-> exc, result |-> <<>>, cache |-> cache, engine |-> engine,
     got |-> FALSE, suggested |-> <<>>, lookups |-> <<>>]

\* (mutant) a lookup that raises leaves the word itself in the cache
lookup_marking(s, engine, primary, compound) ==
    LET g == correction_suggestions(primary, compound)
        invoked == engine \o <<Invocation("correction_suggestions", s, g.outcome)>>
    IN  IF g.outcome # "return"
        THEN [Raised(g.outcome, invoked)
                 EXCEPT !.lookups = g.lookups, !.cache = store(s, s)]
        ELSE LET v == post_process(s, g.value)
             IN  [Returned(v, store(s, v), invoked, TRUE, g.value)
                     EXCEPT !.lookups = g.lookups]

\* lines 48-64: the candidate lookup, after whatever check invoked
lookup(s, engine, primary, compound) ==
    LET g == correction_suggestions(primary, compound)
        invoked == engine \o <<Invocation("correction_suggestions", s, g.outcome)>>
    IN  IF g.outcome # "return"
        THEN [Raised(g.outcome, invoked) EXCEPT !.lookups = g.lookups]
        ELSE LET v == post_process(s, g.value)
             IN  [Returned(v, store(s, v), invoked, TRUE, g.value)
                     EXCEPT !.lookups = g.lookups]

\* lines 40-66: a cache miss
resolve(s, engine_check, primary, compound) ==
    LET c == IF hyphen_candidate(s)
             THEN check(hyphenated(s), engine_check)
             ELSE [outcome |-> "return", truth |-> FALSE, engine |-> <<>>]
    IN  IF c.outcome # "return" THEN Raised(c.outcome, c.engine)
        ELSE IF c.truth
        THEN Returned(hyphenated(s), store(s, hyphenated(s)), c.engine, FALSE, <<>>)
        ELSE IF is_bracket(s)
        THEN Returned(I, store(s, I), c.engine, FALSE, <<>>)
        ELSE lookup(s, c.engine, primary, compound)

\* (mutant) the cache is searched with the case folded
correct_folding_case(s, engine_check, primary, compound) ==
    IF in_personal_subs(s)
    THEN Returned(personal_subs[s], cache, <<>>, FALSE, <<>>)
    ELSE IF ~caching THEN Raised("AttributeError", <<>>)
    ELSE IF \E t \in DOMAIN cache : lower(t) = lower(s)
    THEN Returned(cache[CHOOSE t \in DOMAIN cache : lower(t) = lower(s)],
                  cache, <<>>, FALSE, <<>>)
    ELSE resolve(s, engine_check, primary, compound)

\* (mutant) a substituted value is written to the cache like any other result
correct_caching_subs(s, engine_check, primary, compound) ==
    IF in_personal_subs(s)
    THEN Returned(personal_subs[s],
                  IF caching THEN store(s, personal_subs[s]) ELSE cache,
                  <<>>, FALSE, <<>>)
    ELSE IF ~caching THEN Raised("AttributeError", <<>>)
    ELSE IF in_cache(s) THEN Returned(cache[s], cache, <<>>, FALSE, <<>>)
    ELSE resolve(s, engine_check, primary, compound)

\* (mutant) the cache is looked at before the substitution table
correct_cache_first(s, engine_check, primary, compound) ==
    IF ~caching THEN Raised("AttributeError", <<>>)
    ELSE IF in_cache(s) THEN Returned(cache[s], cache, <<>>, FALSE, <<>>)
    ELSE IF in_personal_subs(s)
    THEN Returned(personal_subs[s], cache, <<>>, FALSE, <<>>)
    ELSE resolve(s, engine_check, primary, compound)

\* SpellChecker.correct, lines 36-66
correct(s, engine_check, primary, compound) ==
    IF in_personal_subs(s)
    THEN Returned(personal_subs[s], cache, <<>>, FALSE, <<>>)
    ELSE IF ~caching THEN Raised("AttributeError", <<>>)
    ELSE IF in_cache(s) THEN Returned(cache[s], cache, <<>>, FALSE, <<>>)
    ELSE resolve(s, engine_check, primary, compound)

\* ------------------------------------------------------------ the machine
NoCall ==
    [op |-> "none", s |-> <<>>, outcome |-> "none", result |-> <<>>,
     truth |-> FALSE, cached |-> FALSE, again |-> FALSE, engine |-> <<>>,
     got |-> FALSE, suggested |-> <<>>, lookups |-> <<>>]

\* SpellChecker.__init__, lines 9-28: the arguments are kept as given and the
\* cache, when there is one, starts empty.
Init ==
    /\ personal_dict \in PersonalDicts
    /\ personal_subs \in PersonalSubs
    /\ do_word_freqs \in BOOLEAN
    /\ max_diff_cutoff \in Cutoffs
    /\ caching \in BOOLEAN
    /\ adapter \in Adapters
    /\ freq_table \in (IF do_word_freqs THEN FreqTables ELSE {NoFreqs})
    /\ cache = NoSubs
    /\ call = NoCall
    /\ seen = {}
    /\ first = NoSubs
    /\ n_suggest = [t \in Tokens |-> 0]
    /\ faulted = FALSE
    /\ nops = 0

\* The answers the engine behind the adapter can give during one call.  An
\* operation that the call cannot reach (the token is substituted or cached,
\* the subclass lacks the operation, the personal dictionary or the hyphen
\* rule settles the matter first) has the one answer "absent"; the compound
\* lookup is made only by SymspellChecker after an empty primary one.
NoAnswer == [raised |-> FALSE, value |-> <<>>]
miss(s) == ~in_personal_subs(s) /\ caching /\ ~in_cache(s)
CheckAnswers == IF has_check THEN EngineChecks ELSE {"absent"}
CheckAnswersIn(s) ==
    IF miss(s) /\ hyphen_candidate(s) /\ ~in_personal_dict(hyphenated(s))
    THEN CheckAnswers
    ELSE {"absent"}
PrimaryAnswersIn(s, engine_check) ==
    IF /\ miss(s) /\ ~is_bracket(s)
       /\ hyphen_candidate(s) =>
              LET c == check(hyphenated(s), engine_check)
              IN  c.outcome = "return" /\ ~c.truth
    THEN EngineLists
    ELSE {NoAnswer}
CompoundAnswers(primary) ==
    IF adapter = "Symspell" /\ ~primary.raised /\ Len(primary.value) = 0
    THEN EngineLists
    ELSE {NoAnswer}

is_fault(outcome) == outcome \in {"EngineError", "IndexError"}

count(engine, fn) == Len(SelectSeq(engine, LAMBDA e : e.fn = fn))

\* One call of correct(s).
Correct ==
    /\ nops < MaxOps
    /\ \E s \in Tokens :
        \E engine_check \in CheckAnswersIn(s) :
        \E primary \in PrimaryAnswersIn(s, engine_check) :
        \E compound \in CompoundAnswers(primary) :
          \E r \in {correct(s, engine_check, primary, compound)} :
            /\ cache' = r.cache
            /\ call' = [op |-> "correct", s |-> s, outcome |-> r.outcome,
                        result |-> r.result, truth |-> FALSE,
                        cached |-> in_cache(s), again |-> s \in seen,
                        engine |-> r.engine, got |-> r.got,
                        suggested |-> r.suggested, lookups |-> r.lookups]
            /\ seen' = seen \cup {s}
            /\ first' = IF r.outcome = "return" /\ s \notin DOMAIN first
                        THEN [t \in DOMAIN first \cup {s} |->
                                 IF t = s THEN r.result ELSE first[t]]
                        ELSE first
            /\ n_suggest' =
                   [n_suggest EXCEPT
                       ![s] = @ + count(r.engine, "correction_suggestions")]
            /\ faulted' = (faulted \/ is_fault(r.outcome))
            /\ nops' = nops + 1
            /\ UNCHANGED config

\* One call of check(s).
Check ==
    /\ nops < MaxOps
    /\ \E s \in CheckTokens, engine_check \in CheckAnswers :
        \E r \in {check(s, engine_check)} :
            /\ call' = [op |-> "check", s |-> s, outcome |-> r.outcome,
                        result |-> <<>>, truth |-> r.truth,
                        cached |-> FALSE, again |-> FALSE,
                        engine |-> r.engine, got |-> FALSE, suggested |-> <<>>,
                        lookups |-> <<>>]
            /\ faulted' = (faulted \/ is_fault(r.outcome))
            /\ nops' = nops + 1
            /\ UNCHANGED <<config, cache, seen, first, n_suggest>>

Next == Correct \/ Check

Spec == Init /\ [][Next]_vars

\* ------------------------------------------------------------------ claims

\* C1: with caching enabled and every engine operation returning normally,
\* each correct(t) returns the string the first correct(t) returned, the
\* engine is invoked on behalf of t only during the first correct(t), and
\* correction_suggestions is invoked at most once per token, although the
\* engine is free to answer differently each time it is asked.
C1_Idempotent ==
    (caching /\ ~faulted) =>
        /\ \A t \in Tokens : n_suggest[t] <= 1
        /\ (call.op = "correct" /\ call.outcome = "return") =>
               call.result = first[call.s]
        /\ (call.op = "correct" /\ call.again) => Len(call.engine) = 0

\* A second correct(t) on a token whose first correction came from the engine.
C1_Witness ==
    /\ caching /\ ~faulted
    /\ call.op = "correct" /\ call.again /\ call.cached
    /\ call.outcome = "return"
    /\ n_suggest[call.s] = 1
    /\ call.result \in Candidates

\* C2: a key of the substitution table is always corrected to its table
\* value: with or without a cache, whatever the cache holds, after engine
\* failures, and for keys the hyphen rule or the bracket rule would match.
C2_Substitution ==
    (call.op = "correct" /\ call.s \in DOMAIN personal_subs) =>
        /\ call.outcome = "return"
        /\ call.result = personal_subs[call.s]

\* A substituted key that the hyphen rule matches, corrected on a checker
\* without a cache whose engine has already raised.
C2_Witness ==
    /\ call.op = "correct" /\ call.s = selfa
    /\ call.s \in DOMAIN personal_subs
    /\ ~caching /\ faulted
    /\ call.result = the

\* C3: check(t) is true without any engine invocation when the lower-cased
\* token is in the personal dictionary; otherwise the engine's _check is
\* invoked once, on t, and check returns its answer.
C3_Check ==
    call.op = "check" =>
        IF \E w \in personal_dict : w = [i \in 1..Len(call.s) |->
                                            lower_char(call.s[i])]
        THEN call.outcome = "return" /\ call.truth /\ Len(call.engine) = 0
        ELSE adapter = "Hunspell" =>
                /\ Len(call.engine) = 1
                /\ call.engine[1].fn = "_check"
                /\ call.engine[1].s = call.s
                /\ call.engine[1].answer # "raise" =>
                       /\ call.outcome = "return"
                       /\ call.truth = (call.engine[1].answer = "True")

\* check("Teh") with "teh" in the personal dictionary.
C3_Witness ==
    /\ call.op = "check" /\ call.s = Teh /\ teh \in personal_dict
    /\ call.outcome = "return" /\ call.truth

\* check of a token outside the dictionary, answered by the engine.
C3_WitnessEngine ==
    /\ call.op = "check" /\ call.s = selfa /\ personal_dict # {}
    /\ call.outcome = "return" /\ ~call.truth /\ Len(call.engine) = 1

\* C4: with a cutoff of 0 every candidate at distance 1 or more is discarded,
\* so correct(t) returns t whenever no candidate equals t.
C4_CutoffZero ==
    (/\ call.op = "correct" /\ call.got
     /\ max_diff_cutoff = 0
     /\ \A i \in 1..Len(call.suggested) : call.suggested[i] # call.s) =>
        call.result = call.s

\* C5: whatever the constructor arguments, a correct call whose engine
\* operations return normally returns a string.  Stated here for the
\* subclass that defines every operation the base class uses.
C5_NeverRaises ==
    (call.op = "correct" /\ adapter = "Hunspell"
     /\ call.outcome # "EngineError") =>
        call.outcome = "return"

\* C6: on a subclass without _check, correct(t) of a token that starts with
\* 'self' but not 'self-' and is neither substituted nor cached skips the
\* hyphen rule and returns what the candidate lookup gives.
C6_HyphenRuleSkipped ==
    (/\ call.op = "correct" /\ adapter \in {"ASpell", "Symspell"}
     /\ caching
     /\ startswith(call.s, self) /\ ~startswith(call.s, self_)
     /\ call.s \notin DOMAIN personal_subs /\ ~call.cached) =>
        \/ call.outcome = "return" /\ call.got
        \/ call.outcome \in {"EngineError", "IndexError"}

\* C7: with ranking on and a positive cutoff k, the correction of a token
\* that reached the candidate lookup is, among the candidates within
\* distance k, one of the highest frequency, and of those the one that came
\* first in the order the engine returned.
C7_Ranking ==
    (call.op = "correct" /\ call.got /\ do_word_freqs /\ max_diff_cutoff > 0) =>
        LET q == call.suggested
            near == {i \in 1..Len(q) : distance(call.s, q[i]) <= max_diff_cutoff}
        IN  near # {} =>
                \E i \in near :
                    /\ call.result = q[i]
                    /\ \A j \in near :
                           /\ word_frequency(q[j]) <= word_frequency(q[i])
                           /\ j < i => word_frequency(q[j]) < word_frequency(q[i])

\* Two candidates within the cutoff, and the second one returned wins.
C7_Witness ==
    /\ call.op = "correct" /\ call.got /\ do_word_freqs /\ max_diff_cutoff > 0
    /\ Len(call.suggested) = 2
    /\ \A i \in 1..2 : distance(call.s, call.suggested[i]) <= max_diff_cutoff
    /\ call.suggested[1] # call.suggested[2]
    /\ call.result = call.suggested[2]

\* C8: if the engine returns no candidate, or only candidates further from t
\* than the configured cutoff, correct(t) returns t and caches t -> t.
C8_Fallback ==
    (/\ call.op = "correct" /\ call.got
     /\ \A i \in 1..Len(call.suggested) :
            distance(call.s, call.suggested[i]) > max_diff_cutoff) =>
        /\ call.result = call.s
        /\ call.s \in DOMAIN cache /\ cache[call.s] = call.s

\* C9: when, for a token t that starts with 'self' but not 'self-' and is
\* neither substituted nor cached, the engine's _check answers true, it was
\* asked about 'self-'+t[4:], correct(t) returns that string and caches it
\* under t, and correction_suggestions is not invoked.
C9_HyphenRule ==
    (/\ call.op = "correct"
     /\ \E k \in 1..Len(call.engine) :
            call.engine[k].fn = "_check" /\ call.engine[k].answer = "True") =>
        LET fixed == self_ \o SubSeq(call.s, 5, Len(call.s))
        IN  /\ startswith(call.s, self) /\ ~startswith(call.s, self_)
            /\ call.s \notin DOMAIN personal_subs /\ ~call.cached
            /\ call.engine = <<Invocation("_check", fixed, "True")>>
            /\ call.outcome = "return" /\ call.result = fixed
            /\ call.s \in DOMAIN cache /\ cache[call.s] = fixed

\* correct("selfa") returned "self-a" on the engine's word.
C9_Witness ==
    /\ call.op = "correct" /\ call.s = selfa /\ call.result = self_a
    /\ Len(call.engine) = 1 /\ call.engine[1].answer = "True"
    /\ cache[selfa] = self_a

\* C10: correct("[") and correct("]"), when the token is no substitution
\* key, return "I" in every reachable state and invoke no engine operation.
C10_Bracket ==
    (/\ call.op = "correct" /\ call.s \in {LB, RB}
     /\ call.s \notin DOMAIN personal_subs) =>
        /\ call.outcome = "return" /\ call.result = I
        /\ Len(call.engine) = 0

\* C11: the cache is empty at construction, and no call removes a key or
\* changes the value stored under a key.
C11_AppendOnly ==
    /\ cache = NoSubs
    /\ [][\A k \in DOMAIN cache :
              k \in DOMAIN cache' /\ cache'[k] = cache[k]]_vars

\* Two corrections are cached, the second written while the first was kept.
C11_Witness ==
    /\ Cardinality(DOMAIN cache) = 2
    /\ call.op = "correct" /\ ~call.cached /\ call.got
    /\ cache[call.s] = call.result

\* C12: correct(t) of a key of the substitution table leaves the cache as it
\* was and invokes no engine operation, so no key of the substitution table
\* is ever a key of the cache.
C12_SubstitutionBypass ==
    /\ [](DOMAIN personal_subs \cap DOMAIN cache = {})
    /\ [][(nops' # nops /\ call'.op = "correct"
           /\ call'.s \in DOMAIN personal_subs) =>
              cache' = cache /\ Len(call'.engine) = 0]_vars

\* A substituted key is corrected while the cache holds another token.
C12_Witness ==
    /\ call.op = "correct" /\ call.s \in DOMAIN personal_subs
    /\ call.result = personal_subs[call.s]
    /\ DOMAIN cache # {}

\* Number of places of q that hold x.
Occurrences(q, x) == Cardinality({i \in 1..Len(q) : q[i] = x})

\* C13: ranking only reorders the candidates, it removes none; so a candidate
\* of frequency 0 that is the only one within the cutoff distance is what
\* correct returns.
C13_RankingPermutes ==
    (call.op = "correct" /\ call.got /\ do_word_freqs) =>
        LET q == call.suggested
            near == {q[i] : i \in {j \in 1..Len(q) :
                               distance(call.s, q[j]) <= max_diff_cutoff}}
        IN  /\ Len(ranked(q)) = Len(q)
            /\ \A i \in 1..Len(q) :
                   Occurrences(ranked(q), q[i]) = Occurrences(q, q[i])
            /\ \A r \in near :
                   (near = {r} /\ word_frequency(r) = 0) => call.result = r

\* C14: the cache is keyed by the exact token.  The first correct(u) of a
\* token u, made while the cache holds a token that differs from u only in
\* letter case, resolves u on its own (a rule of its own or a lookup of its
\* own, asked about u) and stores the result under u.
C14_CaseSensitiveKeys ==
    (/\ call.op = "correct" /\ ~call.again /\ call.outcome = "return"
     /\ call.s \notin DOMAIN personal_subs
     /\ \E t \in DOMAIN cache : t # call.s /\ lower(t) = lower(call.s)) =>
        /\ call.s \in DOMAIN cache /\ cache[call.s] = call.result
        /\ \/ /\ call.got
              /\ \E k \in 1..Len(call.engine) :
                     /\ call.engine[k].fn = "correction_suggestions"
                     /\ call.engine[k].s = call.s
           \/ call.s \in {LB, RB} /\ call.result = I
           \/ /\ startswith(call.s, self)
              /\ call.result = self_ \o SubSeq(call.s, 5, Len(call.s))

\* "Teh" is looked up and cached on its own although "teh" is cached, and
\* the two entries differ.
C14_Witness ==
    /\ call.op = "correct" /\ call.s = Teh /\ ~call.again /\ call.got
    /\ teh \in DOMAIN cache /\ Teh \in DOMAIN cache
    /\ cache[Teh] = call.result /\ cache[Teh] # cache[teh]

\* A call of correct that resolved its token through the hyphen rule: a
\* cache miss on a token that is no bracket, answered without a lookup.
ByHyphenRule ==
    /\ call.op = "correct" /\ call.outcome = "return"
    /\ call.s \notin DOMAIN personal_subs /\ ~call.cached
    /\ ~call.got /\ call.s \notin {LB, RB}

\* C15, as claimed: whenever correct(t) resolves t through the hyphen rule,
\* the engine's own _check was invoked on 'self-'+t[4:] during the call and
\* answered true.
C15_EngineCheckInvoked ==
    ByHyphenRule =>
        call.engine =
            <<Invocation("_check", self_ \o SubSeq(call.s, 5, Len(call.s)),
                         "True")>>

\* C15, amended: whenever correct(t) resolves t through the hyphen rule,
\* the result is 'self-'+t[4:] and either its lower-cased form is in the
\* personal dictionary and no engine operation was invoked, or the engine's
\* own _check was invoked on it, once, and answered true.
C15_CheckReportedTrue ==
    ByHyphenRule =>
        LET fixed == self_ \o SubSeq(call.s, 5, Len(call.s))
        IN  /\ call.result = fixed
            /\ \/ lower(fixed) \in personal_dict /\ Len(call.engine) = 0
               \/ call.engine = <<Invocation("_check", fixed, "True")>>

\* "selfa" becomes "self-a" on the word of the personal dictionary alone.
C15_Witness ==
    /\ ByHyphenRule /\ call.s = selfa /\ call.result = self_a
    /\ self_a \in personal_dict /\ Len(call.engine) = 0

\* C16: for SymspellChecker, a token that reaches the candidate lookup is
\* corrected to itself or to a whole term the backend can propose, and what
\* correction_suggestions hands over is a sequence of whole terms.
C16_WholeTerms ==
    (adapter = "Symspell" /\ call.op = "correct" /\ call.got) =>
        /\ call.result = call.s \/ call.result \in Candidates
        /\ \A i \in 1..Len(call.suggested) : call.suggested[i] \in Candidates

\* C17: for SymspellChecker, when the primary and the compound lookup both
\* come back empty, correct returns the token unchanged.
C17_EmptyLookups ==
    (adapter = "Symspell" /\ call.op = "correct"
     /\ call.lookups = <<"empty", "empty">>) =>
        call.outcome = "return" /\ call.result = call.s

\* C18: in every reachable state each cache entry (k, v) has v = k, or k a
\* bracket and v = "I", or k with the prefix "self" but not "self-" and
\* v = "self-" + k[4:], or v a candidate term of the engine that is within
\* the cutoff of k when the cutoff is not zero.
C18_CacheEntries ==
    \A k \in DOMAIN cache :
        LET v == cache[k]
        IN  \/ v = k
            \/ is_bracket(k) /\ v = I
            \/ hyphen_candidate(k) /\ v = self_ \o SubSeq(k, 5, Len(k))
            \/ /\ v \in Candidates
               /\ max_diff_cutoff # 0 => distance(k, v) <= max_diff_cutoff

\* C19: when the adapter's check or its correction_suggestions raises during
\* correct(t), the step leaves the cache exactly as it was, with no entry
\* for t; and a later correct(t) that finds no entry and no substitution
\* goes to the adapter again: the engine is invoked, or the adapter's check
\* fails once more for want of a _check.
C19_FailureLeavesCache ==
    /\ [][(/\ nops' # nops /\ call'.op = "correct"
           /\ caching /\ call'.outcome # "return") =>
              cache' = cache /\ call'.s \notin DOMAIN cache']_vars
    /\ []((/\ call.op = "correct" /\ call.again /\ caching
           /\ call.s \notin DOMAIN personal_subs /\ ~call.cached) =>
              \/ Len(call.engine) >= 1
              \/ call.outcome = "AttributeError" /\ ~has_check)
    /\ []((call.op = "correct" /\ call.again /\ call.cached) =>
              call.s \in DOMAIN first /\ call.result = first[call.s])

\* The lookup for a token raised in an earlier call; this call went to the
\* engine again and its result is the first one cached for the token.
C19_Witness ==
    /\ call.op = "correct" /\ call.again /\ caching /\ faulted
    /\ call.s \notin DOMAIN personal_subs /\ ~call.cached
    /\ call.got /\ Len(call.engine) >= 1
    /\ Cardinality(DOMAIN cache) = 1 /\ cache[call.s] = call.result

====
